---- MODULE Spec2Model ----
(***************************************************************************)
(* The VPN connector of proton.vpn.connection: the connection state        *)
(* machine (states.py), the events it consumes (events.py) and the         *)
(* connector that serialises event processing under a lock                 *)
(* (vpnconnector.py).                                                      *)
(*                                                                         *)
(* Connections are numbered from 1 in order of creation; 0 is None.        *)
(* run_tasks() is modelled as run to completion at the place the connector *)
(* calls it (vpnconnector.py:195), its calls on the connection recorded in *)
(* order.                                                                  *)
(***************************************************************************)
EXTENDS Integers, Sequences, FiniteSets, TLC

\* Bounds of the model: the connections created in one run, and the backend
\* threads that deliver connection events.
MaxConns == 2
MaxBackendThreads == 1
\* The events returned by run_tasks that one call of _on_connection_event is
\* followed through.
MaxCascade == 101

\* The kill switch settings a connection carries in connection.killswitch
\* (KillSwitchState).
KS_OFF == "OFF"
KS_ON == "ON"
KS_PERMANENT == "PERMANENT"

\* connect() is followed for MaxConns connections, and for one more where
\* several connections are queued behind one that is being stopped.
Conns == 1..(MaxConns + 1)
\* _process_connection_event "may be called from multiple threads: the app's
\* (main) thread, when the user requests to start/stop a connection, and the
\* thread starting/stopping the VPN connection".
MainThread == 0
BackendThreads == 1..MaxBackendThreads
Threads == {MainThread} \cup BackendThreads
NoThread == -1
KillSwitchValues == {KS_OFF, KS_ON, KS_PERMANENT}

StateTypes == {"Disconnected", "Connecting", "Connected", "Disconnecting", "Error"}
ErrorEvents == {"DeviceDisconnected", "Timeout", "AuthDenied", "TunnelSetupFailed", "UnexpectedError"}
EVENT_TYPES == {"Up", "Down", "Connected", "Disconnected"} \cup ErrorEvents

VARIABLES
    current_state,  \* VPNConnector._current_state: [type, connection, reconnection]
    lock,           \* VPNConnector._lock: the thread holding it, NoThread when free
    pc,             \* per thread: "idle", "waiting" (blocked on the lock), "locked"
    ev,             \* per thread: the event it is submitting
    registered,     \* connections the connector's callback is registered on
    killswitch,     \* connection.killswitch, per connection
    backend,        \* per connection: what the backend is doing
    nextConn,       \* number of connections created so far
    calls,          \* calls made on connections by the latest run_tasks()
    persisted,      \* connection whose parameters are on disk, 0 when none
    last,           \* outcome of the latest _process_connection_event call
    lastConnected,  \* history: connection of the latest Connected commit since the latest terminal Disconnected
    connectedOnce,  \* history: a Connected state was committed for the current connection
    steps,          \* what the latest _update_state call did, in order
    delivered,      \* the state most recently passed to publisher.notify
    cascade,        \* per thread: events returned by run_tasks it has submitted in its current call
    cls,            \* the class VPNConnector: _instance and the history of get_instance
    publisher,      \* a Publisher object: __subscribers and the history of its calls
    store,          \* a ConnectionPersistence object: its file and the history of its calls
    factory,        \* the backends the loader knows and a call of get_from_factory
    fn_pc,          \* on_event applied in isolation: "off", "ready" or "done",
    fn_state,       \*   the state it is called on,
    fn_event,       \*   the event,
    fn_result       \*   and the result

vars == <<current_state, lock, pc, ev, registered, killswitch, backend, nextConn,
          calls, persisted, last, lastConnected, connectedOnce,
          steps, delivered, cascade,
          cls, publisher, store, factory,
          fn_pc, fn_state, fn_event, fn_result>>

connVars == <<current_state, lock, pc, ev, registered, killswitch, backend, nextConn,
              calls, persisted, last, lastConnected, connectedOnce,
              steps, delivered, cascade>>
fnVars == <<fn_pc, fn_state, fn_event, fn_result>>
libVars == <<cls, publisher, store, factory>>

-----------------------------------------------------------------------------
\* Events and states.

Event(type, connection) == [type |-> type, connection |-> connection]
NoEvent == [type |-> "None", connection |-> 0]

\* StateContext.event, the event that led to the state, is kept for
\* observability only and is read by no code of the connector: it is left out
\* of the state records.
StateContext(event, connection, reconnection) ==
    [connection |-> connection, reconnection |-> reconnection]

State(type, context) ==
    [type |-> type, connection |-> context.connection,
     reconnection |-> context.reconnection]

NoState == [type |-> "None", connection |-> 0, reconnection |-> 0]

IsError(event) == event.type \in ErrorEvents

\* State._assert_no_concurrent_connections: TRUE when the error is raised.
MutantAssertAlsoOnUp(state, event) ==
    event.connection # state.connection

assert_no_concurrent_connections(state, event) ==
    LET not_up_event == event.type # "Up"
        different_connection == event.connection # state.connection
    IN not_up_event /\ different_connection

\* The _on_event methods return [same, state]: same is "the result is self".
MutantDisconnectedDownCleansAgain(self, event) ==
    IF event.type = "Up"
    THEN [same |-> FALSE,
          state |-> State("Connecting", StateContext(event.type, event.connection, 0))]
    ELSE IF event.type = "Down"
    THEN [same |-> FALSE,
          state |-> State("Disconnected", StateContext(event.type, event.connection, 0))]
    ELSE [same |-> TRUE, state |-> self]

MutantDisconnectedDownDisconnecting(self, event) ==
    IF event.type = "Up"
    THEN [same |-> FALSE,
          state |-> State("Connecting", StateContext(event.type, event.connection, 0))]
    ELSE IF event.type = "Down"
    THEN [same |-> FALSE,
          state |-> State("Disconnecting", StateContext(event.type, event.connection, 0))]
    ELSE [same |-> TRUE, state |-> self]

Disconnected_on_event(self, event) ==
    IF event.type = "Up"
    THEN [same |-> FALSE,
          state |-> State("Connecting", StateContext(event.type, event.connection, 0))]
    ELSE [same |-> TRUE, state |-> self]

MutantConnectingErrorDisconnects(self, event) ==
    IF event.type = "Connected"
    THEN [same |-> FALSE,
          state |-> State("Connected", StateContext(event.type, event.connection, 0))]
    ELSE IF event.type = "Down"
    THEN [same |-> FALSE,
          state |-> State("Disconnecting", StateContext(event.type, event.connection, 0))]
    ELSE IF event.type = "Up"
    THEN [same |-> FALSE,
          state |-> State("Disconnecting",
                          StateContext(event.type, self.connection, event.connection))]
    ELSE IF event.type = "Disconnected" \/ IsError(event)
    THEN [same |-> FALSE,
          state |-> State("Disconnected", StateContext(event.type, event.connection, 0))]
    ELSE [same |-> TRUE, state |-> self]

Connecting_on_event(self, event) ==
    IF event.type = "Connected"
    THEN [same |-> FALSE,
          state |-> State("Connected", StateContext(event.type, event.connection, 0))]
    ELSE IF event.type = "Down"
    THEN [same |-> FALSE,
          state |-> State("Disconnecting", StateContext(event.type, event.connection, 0))]
    ELSE IF IsError(event)
    THEN [same |-> FALSE,
          state |-> State("Error", StateContext(event.type, event.connection, 0))]
    ELSE IF event.type = "Up"
    THEN [same |-> FALSE,
          state |-> State("Disconnecting",
                          StateContext(event.type, self.connection, event.connection))]
    ELSE IF event.type = "Disconnected"
    THEN [same |-> FALSE,
          state |-> State("Disconnected", StateContext(event.type, event.connection, 0))]
    ELSE [same |-> TRUE, state |-> self]

MutantConnectedUpForgetsReconnection(self, event) ==
    IF event.type = "Down" \/ event.type = "Up"
    THEN [same |-> FALSE,
          state |-> State("Disconnecting", StateContext(event.type, self.connection, 0))]
    ELSE IF IsError(event)
    THEN [same |-> FALSE,
          state |-> State("Error", StateContext(event.type, event.connection, 0))]
    ELSE IF event.type = "Disconnected"
    THEN [same |-> FALSE,
          state |-> State("Disconnected", StateContext(event.type, event.connection, 0))]
    ELSE [same |-> TRUE, state |-> self]

MutantConnectedUpStartsAtOnce(self, event) ==
    IF event.type = "Down"
    THEN [same |-> FALSE,
          state |-> State("Disconnecting", StateContext(event.type, event.connection, 0))]
    ELSE IF event.type = "Up"
    THEN [same |-> FALSE,
          state |-> State("Connecting", StateContext(event.type, event.connection, 0))]
    ELSE IF IsError(event)
    THEN [same |-> FALSE,
          state |-> State("Error", StateContext(event.type, event.connection, 0))]
    ELSE IF event.type = "Disconnected"
    THEN [same |-> FALSE,
          state |-> State("Disconnected", StateContext(event.type, event.connection, 0))]
    ELSE [same |-> TRUE, state |-> self]

Connected_on_event(self, event) ==
    IF event.type = "Down"
    THEN [same |-> FALSE,
          state |-> State("Disconnecting", StateContext(event.type, event.connection, 0))]
    ELSE IF event.type = "Up"
    THEN [same |-> FALSE,
          state |-> State("Disconnecting",
                          StateContext(event.type, self.connection, event.connection))]
    ELSE IF IsError(event)
    THEN [same |-> FALSE,
          state |-> State("Error", StateContext(event.type, event.connection, 0))]
    ELSE IF event.type = "Disconnected"
    THEN [same |-> FALSE,
          state |-> State("Disconnected", StateContext(event.type, event.connection, 0))]
    ELSE [same |-> TRUE, state |-> self]

MutantDisconnectingDropsReconnection(self, event) ==
    IF event.type = "Disconnected"
    THEN [same |-> FALSE,
          state |-> State("Disconnected", StateContext(event.type, event.connection, 0))]
    ELSE IF event.type = "Up"
    THEN [same |-> TRUE, state |-> [self EXCEPT !.reconnection = event.connection]]
    ELSE [same |-> TRUE, state |-> self]

MutantDisconnectingKeepsFirstReconnection(self, event) ==
    IF event.type = "Disconnected"
    THEN [same |-> FALSE,
          state |-> State("Disconnected",
                          StateContext(event.type, event.connection, self.reconnection))]
    ELSE IF event.type = "Up" /\ self.reconnection = 0
    THEN [same |-> TRUE, state |-> [self EXCEPT !.reconnection = event.connection]]
    ELSE [same |-> TRUE, state |-> self]

\* An Up event sets self.context.reconnection in place and returns self.
Disconnecting_on_event(self, event) ==
    IF event.type = "Disconnected"
    THEN [same |-> FALSE,
          state |-> State("Disconnected",
                          StateContext(event.type, event.connection, self.reconnection))]
    ELSE IF event.type = "Up"
    THEN [same |-> TRUE, state |-> [self EXCEPT !.reconnection = event.connection]]
    ELSE [same |-> TRUE, state |-> self]

Error_on_event(self, event) ==
    IF event.type = "Down"
    THEN [same |-> FALSE,
          state |-> State("Disconnected", StateContext(event.type, event.connection, 0))]
    ELSE IF event.type = "Up"
    THEN [same |-> FALSE,
          state |-> State("Connecting", StateContext(event.type, event.connection, 0))]
    ELSE [same |-> TRUE, state |-> self]

\* A state whose tasks always return an Up event for its own connection, and
\* which an Up event replaces by a new state of the same kind.
Looping_on_event(self, event) ==
    IF event.type = "Up"
    THEN [same |-> FALSE,
          state |-> State("Looping", StateContext(event.type, event.connection, 0))]
    ELSE [same |-> TRUE, state |-> self]

dispatch_on_event(self, event) ==
    CASE self.type = "Disconnected" -> Disconnected_on_event(self, event)
      [] self.type = "Connecting" -> Connecting_on_event(self, event)
      [] self.type = "Connected" -> Connected_on_event(self, event)
      [] self.type = "Disconnecting" -> Disconnecting_on_event(self, event)
      [] self.type = "Error" -> Error_on_event(self, event)
      [] self.type = "Looping" -> Looping_on_event(self, event)

MutantOnEventNoWarning(self, event) ==
    IF assert_no_concurrent_connections(self, event)
    THEN [raised |-> TRUE, same |-> FALSE, warned |-> FALSE, state |-> NoState]
    ELSE LET r == dispatch_on_event(self, event)
         IN [raised |-> FALSE, same |-> r.same, warned |-> FALSE, state |-> r.state]

\* State.on_event: raises, or returns the new state, logging a warning when
\* the new state is self.
on_event(self, event) ==
    IF assert_no_concurrent_connections(self, event)
    THEN [raised |-> TRUE, same |-> FALSE, warned |-> FALSE, state |-> NoState]
    ELSE LET r == dispatch_on_event(self, event)
         IN [raised |-> FALSE, same |-> r.same, warned |-> r.same, state |-> r.state]

-----------------------------------------------------------------------------
\* The tasks each state runs once it is the current state.

Call(op, connection, arg) == [op |-> op, connection |-> connection, arg |-> arg]

\* State.is_killswitch_enabled
is_killswitch_enabled(self) == killswitch[self.connection] = KS_ON

MutantDisconnectedAlwaysCleansUp(self) ==
    IF self.connection = 0
    THEN [calls |-> <<>>, event |-> NoEvent]
    ELSE [calls |-> <<Call("disable_ipv6_leak_protection", self.connection, 0),
                      Call("disable_killswitch", self.connection, 0),
                      Call("remove_persistence", self.connection, 0)>>,
          event |-> IF self.reconnection # 0 THEN Event("Up", self.reconnection)
                    ELSE NoEvent]

MutantDisconnectedKeepsPersistence(self) ==
    IF self.connection = 0
    THEN [calls |-> <<>>, event |-> NoEvent]
    ELSE IF self.reconnection # 0
    THEN [calls |-> <<>>, event |-> Event("Up", self.reconnection)]
    ELSE [calls |-> <<Call("disable_ipv6_leak_protection", self.connection, 0),
                      Call("disable_killswitch", self.connection, 0)>>,
          event |-> NoEvent]

MutantDisconnectedLeavesKillSwitch(self) ==
    IF self.connection = 0
    THEN [calls |-> <<>>, event |-> NoEvent]
    ELSE IF self.reconnection # 0
    THEN [calls |-> <<>>, event |-> Event("Up", self.reconnection)]
    ELSE [calls |-> <<Call("disable_ipv6_leak_protection", self.connection, 0),
                      Call("remove_persistence", self.connection, 0)>>,
          event |-> NoEvent]

\* asyncio.gather starts its coroutines in the order of its arguments.
Disconnected_run_tasks(self) ==
    IF self.connection = 0
    THEN [calls |-> <<>>, event |-> NoEvent]
    ELSE IF self.reconnection # 0
    THEN [calls |-> <<>>, event |-> Event("Up", self.reconnection)]
    ELSE [calls |-> <<Call("disable_ipv6_leak_protection", self.connection, 0),
                      Call("disable_killswitch", self.connection, 0),
                      Call("remove_persistence", self.connection, 0)>>,
          event |-> NoEvent]

MutantConnectingStartsFirst(self) ==
    [calls |-> <<Call("start", self.connection, 0),
                 Call("enable_ipv6_leak_protection", self.connection, 0)>>,
     event |-> NoEvent]

\* enable_killswitch is given the connection as its argument here.
Connecting_run_tasks(self) ==
    [calls |-> <<Call("enable_ipv6_leak_protection", self.connection, 0)>>
               \o (IF is_killswitch_enabled(self)
                   THEN <<Call("enable_killswitch", self.connection, self.connection)>>
                   ELSE <<>>)
               \o <<Call("start", self.connection, 0)>>,
     event |-> NoEvent]

MutantConnectedPersistsFirst(self) ==
    [calls |-> <<Call("add_persistence", self.connection, 0)>>
               \o (IF is_killswitch_enabled(self)
                   THEN <<Call("enable_killswitch", self.connection, 0)>>
                   ELSE <<>>),
     event |-> NoEvent]

Connected_run_tasks(self) ==
    [calls |-> (IF is_killswitch_enabled(self)
                THEN <<Call("enable_killswitch", self.connection, 0)>>
                ELSE <<>>)
               \o <<Call("add_persistence", self.connection, 0)>>,
     event |-> NoEvent]

MutantDisconnectingCleansUp(self) ==
    [calls |-> <<Call("stop", self.connection, 0),
                 Call("disable_ipv6_leak_protection", self.connection, 0),
                 Call("disable_killswitch", self.connection, 0),
                 Call("remove_persistence", self.connection, 0)>>,
     event |-> NoEvent]

Disconnecting_run_tasks(self) ==
    [calls |-> <<Call("stop", self.connection, 0)>>, event |-> NoEvent]

MutantErrorDisablesProtection(self) ==
    [calls |-> <<Call("stop", self.connection, 0),
                 Call("disable_ipv6_leak_protection", self.connection, 0)>>,
     event |-> NoEvent]

Error_run_tasks(self) ==
    [calls |-> <<Call("stop", self.connection, 0)>>, event |-> NoEvent]

Looping_run_tasks(self) ==
    [calls |-> <<>>, event |-> Event("Up", self.connection)]

run_tasks(self) ==
    CASE self.type = "Disconnected" -> Disconnected_run_tasks(self)
      [] self.type = "Connecting" -> Connecting_run_tasks(self)
      [] self.type = "Connected" -> Connected_run_tasks(self)
      [] self.type = "Disconnecting" -> Disconnecting_run_tasks(self)
      [] self.type = "Error" -> Error_run_tasks(self)
      [] self.type = "Looping" -> Looping_run_tasks(self)

Ops(cs) == {cs[i].op : i \in DOMAIN cs}
Has(cs, op) == op \in Ops(cs)

\* What the calls do to the connection they are made on: start() and stop()
\* return promptly and the backend goes on; add_persistence() and
\* remove_persistence() write and delete the record on disk.
BackendAfter(cs, c, status) ==
    IF \E i \in DOMAIN cs : cs[i].op = "start" /\ cs[i].connection = c
    THEN "starting"
    ELSE IF \E i \in DOMAIN cs : cs[i].op = "stop" /\ cs[i].connection = c
    THEN (IF status \in {"starting", "up", "failed"} THEN "stopping" ELSE status)
    ELSE status

PersistedAfter(cs, record) ==
    IF \E i \in DOMAIN cs : cs[i].op = "add_persistence"
    THEN (CHOOSE c \in Conns : \E i \in DOMAIN cs :
                cs[i].op = "add_persistence" /\ cs[i].connection = c)
    ELSE IF Has(cs, "remove_persistence") THEN 0
    ELSE record

-----------------------------------------------------------------------------
\* The publisher (publisher.py).

\* The subscribers that take part in a run; 0 is None.
MaxSubscribers == 3
SubscriberIds == 1..MaxSubscribers

Range(list) == {list[i] : i \in DOMAIN list}

\* Publisher.register and Publisher.unregister return [subscribers, raised]:
\* the list after the call and the exception that leaves the call, "None"
\* when it returns.
MutantRegisterAlwaysAppends(subscribers, who) ==
    IF who = 0
    THEN [subscribers |-> subscribers, raised |-> "RuntimeError"]
    ELSE [subscribers |-> Append(subscribers, who), raised |-> "None"]

Publisher_register(subscribers, who) ==
    IF who = 0
    THEN [subscribers |-> subscribers, raised |-> "RuntimeError"]
    ELSE IF who \in Range(subscribers)
    THEN [subscribers |-> subscribers, raised |-> "None"]
    ELSE [subscribers |-> Append(subscribers, who), raised |-> "None"]

\* list.remove(x) removes the first item equal to x and raises ValueError
\* when there is none: [list, raised].
list_remove(list, x) ==
    IF x \in Range(list)
    THEN LET i == CHOOSE j \in DOMAIN list :
                     list[j] = x /\ \A k \in 1..(j - 1) : list[k] # x
         IN [list |-> SubSeq(list, 1, i - 1) \o SubSeq(list, i + 1, Len(list)),
             raised |-> "None"]
    ELSE [list |-> list, raised |-> "ValueError"]

\* `except KeyError: pass` swallows a KeyError and nothing else.
Publisher_unregister(subscribers, who) ==
    LET r == list_remove(subscribers, who)
    IN [subscribers |-> r.list,
        raised |-> IF r.raised = "KeyError" THEN "None" ELSE r.raised]

\* One turn of the loop of Publisher._notify_subscribers, at position i of the
\* list: [done, invoked, raised, i], done when the call is left, invoked the
\* subscriber whose status_update is called (0 when none), raised the exception
\* that leaves the call.  raising is the set of subscribers whose
\* status_update raises.
notify_subscribers_step(subscribers, i, raising) ==
    IF i > Len(subscribers)
    THEN [done |-> TRUE, invoked |-> 0, raised |-> "None", i |-> i]
    ELSE IF subscribers[i] \in raising
    THEN [done |-> TRUE, invoked |-> subscribers[i], raised |-> "Exception", i |-> i]
    ELSE [done |-> FALSE, invoked |-> subscribers[i], raised |-> "None", i |-> i + 1]

NoCall == [name |-> "none", who |-> 0]

\* Publisher.__init__, and no call made yet.
Publisher_init(raising) ==
    [subscribers |-> <<>>,
     raising |-> raising,
     pc |-> "idle",
     i |-> 0,
     invoked |-> <<>>,
     raised |-> "None",
     op |-> NoCall,
     before |-> <<>>,
     removed |-> {}]

PublisherIdle == publisher = Publisher_init({})

-----------------------------------------------------------------------------
\* The persistence of the connection parameters (persistence.py).

\* The records saved are numbered 1..MaxParams; a string field holds a number
\* that stands for a string.  The kill switch settings are 0..MaxKillSwitch.
MaxParams == 2
MaxKillSwitch == 1

\* The fields of ConnectionParameters, in the order of the dataclass.
FIELDS == <<"connection_id", "backend", "protocol", "server_id", "server_name", "killswitch">>
REQUIRED == {"connection_id", "backend", "protocol", "server_id", "server_name"}

ConnectionParameters(connection_id, backend_, protocol, server_id, server_name, killswitch_) ==
    [connection_id |-> connection_id, backend |-> backend_, protocol |-> protocol,
     server_id |-> server_id, server_name |-> server_name, killswitch |-> killswitch_]

NoParameters == ConnectionParameters(0, 0, 0, 0, 0, 0)

\* The valid records: five strings, different from field to field and from
\* record to record, and a kill switch setting.
ValidParameters ==
    {ConnectionParameters(10 * n + 1, 10 * n + 2, 10 * n + 3, 10 * n + 4, 10 * n + 5, k) :
        n \in 1..MaxParams, k \in 0..MaxKillSwitch}

\* The text of the file is a sequence of pieces: the braces of a JSON object,
\* a member "key": value, a JSON value that is not an object ([], 3, null,
\* "x"), or text that is no JSON at all.
Piece(k, v) == [k |-> k, v |-> v]
OPEN == Piece("{", 0)
CLOSE == Piece("}", 0)
VALUE == Piece("value", 0)
JUNK == Piece("junk", 0)

NoFile == [exists |-> FALSE, content |-> <<>>]
File(content) == [exists |-> TRUE, content |-> content]

\* json.dump(connection_parameters.__dict__, file): the text written.
json_dump(obj) ==
    <<OPEN>> \o [i \in 1..Len(FIELDS) |-> Piece(FIELDS[i], obj[FIELDS[i]])] \o <<CLOSE>>

\* json.load(file): [error, object, members].
json_load(text) ==
    IF Len(text) = 1 /\ text[1] = VALUE
    THEN [error |-> "None", object |-> FALSE, members |-> <<>>]
    ELSE IF /\ Len(text) >= 2
            /\ text[1] = OPEN
            /\ text[Len(text)] = CLOSE
            /\ \A i \in 2..(Len(text) - 1) : text[i].k \in Range(FIELDS)
    THEN [error |-> "None", object |-> TRUE, members |-> SubSeq(text, 2, Len(text) - 1)]
    ELSE [error |-> "JSONDecodeError", object |-> FALSE, members |-> <<>>]

HasKey(members, key) == \E i \in DOMAIN members : members[i].k = key

\* file_content[key]; of a key given twice json keeps the last value.
Item(members, key) ==
    LET i == CHOOSE j \in DOMAIN members :
                 members[j].k = key /\ \A m \in (j + 1)..Len(members) : members[m].k # key
    IN members[i].v

\* file_content.get(key, default)
Get(members, key, default) ==
    IF HasKey(members, key) THEN Item(members, key) ELSE default

\* The outcome of load(): the exception that leaves the call ("None" when it
\* returns), whether a record is returned, and the record.
Outcome(raised, found, params) ==
    [done |-> TRUE, raised |-> raised, found |-> found, params |-> params]
NotLoaded == [done |-> FALSE, raised |-> "None", found |-> FALSE, params |-> NoParameters]

MutantLoadLosesKillSwitch(file) ==
    IF ~file.exists
    THEN Outcome("None", FALSE, NoParameters)
    ELSE LET doc == json_load(file.content)
         IN IF doc.error = "JSONDecodeError"
            THEN Outcome("None", FALSE, NoParameters)
            ELSE IF ~doc.object
            THEN Outcome("TypeError", FALSE, NoParameters)
            ELSE IF \E key \in REQUIRED : ~HasKey(doc.members, key)
            THEN Outcome("None", FALSE, NoParameters)
            ELSE Outcome("None", TRUE,
                    ConnectionParameters(
                        Item(doc.members, "connection_id"),
                        Item(doc.members, "backend"),
                        Item(doc.members, "protocol"),
                        Item(doc.members, "server_id"),
                        Item(doc.members, "server_name"),
                        0))

\* ConnectionPersistence.load: JSONDecodeError and KeyError are caught and
\* None is returned; subscripting a value that is not an object raises
\* TypeError, which is not caught.
ConnectionPersistence_load(file) ==
    IF ~file.exists
    THEN Outcome("None", FALSE, NoParameters)
    ELSE LET doc == json_load(file.content)
         IN IF doc.error = "JSONDecodeError"
            THEN Outcome("None", FALSE, NoParameters)
            ELSE IF ~doc.object
            THEN Outcome("TypeError", FALSE, NoParameters)
            ELSE IF \E key \in REQUIRED : ~HasKey(doc.members, key)
            THEN Outcome("None", FALSE, NoParameters)
            ELSE Outcome("None", TRUE,
                    ConnectionParameters(
                        Item(doc.members, "connection_id"),
                        Item(doc.members, "backend"),
                        Item(doc.members, "protocol"),
                        Item(doc.members, "server_id"),
                        Item(doc.members, "server_name"),
                        Get(doc.members, "killswitch", 0)))

\* ConnectionPersistence.__init__ over a file, and no call made yet.
ConnectionPersistence_init(file) ==
    [file |-> file,
     pc |-> "idle",
     pending |-> <<>>,
     saving |-> NoParameters,
     complete |-> FALSE,
     crashed |-> FALSE,
     before |-> NotLoaded,
     loaded |-> NotLoaded]

PersistenceIdle == store = ConnectionPersistence_init(NoFile)

-----------------------------------------------------------------------------
\* The backends.  proton.loader knows a list of backends, each with the name
\* of its class, a priority and a class whose _validate() tells whether the
\* backend can be used on this machine.  Backend n of the model is the n-th
\* entry of Loader.get_all("backend") and has the class name n; 0 stands for
\* `backend=None` and for `None` as a result.

MaxBackends == 3
MaxPriority == 3

BackendNames == 1..MaxBackends
Priorities == 1..MaxPriority

LoaderEntry(class_name, priority, valid) ==
    [class_name |-> class_name, priority |-> priority, valid |-> valid]

\* Loader.get_all("backend")
Loaders ==
    UNION {[1..n -> [priority : Priorities, valid : BOOLEAN]] : n \in 0..MaxBackends}

get_all(loader) ==
    [n \in 1..Len(loader) |-> LoaderEntry(n, loader[n].priority, loader[n].valid)]

\* sorted(all_backends, key=lambda _b: _b.priority, reverse=True): the sort is
\* stable, entries of the same priority stay in the order of the loader.
SortsBefore(list, i, j) ==
    \/ list[i].priority > list[j].priority
    \/ list[i].priority = list[j].priority /\ i < j

sorted_reverse(list) ==
    [k \in 1..Len(list) |->
        list[CHOOSE i \in 1..Len(list) :
                Cardinality({j \in 1..Len(list) : SortsBefore(list, j, i)}) = k - 1]]

\* `<class>.cls`: the classes of the backends are VPNConnection subclasses,
\* which have no attribute of that name.
class_has_cls(entry) == FALSE

Built(raised, by) == [raised |-> raised, by |-> by]

MutantFactoryIgnoresValidate(all_backends, wanted) ==
    IF all_backends = <<>>
    THEN Built("None", 0)
    ELSE Built("None", sorted_reverse(all_backends)[1].class_name)

\* VPNConnection.get_from_factory(protocol, backend), `wanted` being its
\* argument `backend`: which backend built the connection that is returned
\* (0: None is returned) and what is raised.
get_from_factory(all_backends, wanted) ==
    LET sorted_backends == sorted_reverse(all_backends)
        named == SelectSeq(sorted_backends, LAMBDA _b : _b.class_name = wanted)
        valid == SelectSeq(sorted_backends, LAMBDA _b : _b.valid)
    IN  IF wanted # 0
        THEN IF named = <<>>
             THEN Built("None", 0)                     \* IndexError, caught
             ELSE IF class_has_cls(named[1])
                  THEN Built("None", named[1].class_name)
                  ELSE Built("None", 0)                \* AttributeError, caught
        ELSE IF valid = <<>>
             THEN Built("None", 0)                     \* the loop ends, None
             ELSE Built("None", valid[1].class_name)

NotBuilt == Built("NotCalled", 0)

Factory_init(loader) ==
    [loader |-> loader, pc |-> "idle", backend |-> 0, result |-> NotBuilt]

FactoryIdle == factory = Factory_init(<<>>)

\* VPNConnector._instance holds the connector that the specifications of the
\* connector start with.
InstanceCreated ==
    cls = [instance |-> 1, created |-> 1, determined |-> 1, returned |-> <<1>>]

LibIdle == InstanceCreated /\ PublisherIdle /\ PersistenceIdle /\ FactoryIdle

-----------------------------------------------------------------------------
\* The connector.

\* VPNConnector.is_connection_ongoing, of a state.
is_connection_ongoing(state) == state.type \notin {"Disconnected", "Error"}

MutantUpdateStateNotifiesConnectedOnly(new_state) ==
    LET tasks == run_tasks(new_state)
        told == new_state.type = "Connected"
    IN [current_state |-> new_state,
        unregister |-> IF ~is_connection_ongoing(new_state) /\ new_state.connection # 0
                       THEN {new_state.connection} ELSE {},
        calls |-> tasks.calls,
        steps |-> IF told THEN <<"commit", "run_tasks", "notify">>
                  ELSE <<"commit", "run_tasks">>,
        delivered |-> IF told THEN new_state ELSE NoState,
        new_event |-> tasks.event]

MutantUpdateStateKeepsCallback(new_state) ==
    LET tasks == run_tasks(new_state)
    IN [current_state |-> new_state,
        unregister |-> {},
        calls |-> tasks.calls,
        steps |-> <<"commit", "run_tasks", "notify">>,
        delivered |-> new_state,
        new_event |-> tasks.event]

\* VPNConnector._update_state: what committing new_state does, and in steps
\* the order in which it does it.
update_state(new_state) ==
    LET tasks == run_tasks(new_state)
    IN [current_state |-> new_state,
        unregister |-> IF ~is_connection_ongoing(new_state) /\ new_state.connection # 0
                       THEN {new_state.connection} ELSE {},
        calls |-> tasks.calls,
        steps |-> <<"commit", "run_tasks", "notify">>,
        delivered |-> new_state,
        new_event |-> tasks.event]

Did(done, step) == \E i \in DOMAIN done : done[i] = step

Submitted(event, origin) ==
    [type |-> event.type, connection |-> event.connection, origin |-> origin]
Nothing == Submitted(NoEvent, "none")

NoOutcome == [raised |-> FALSE, warned |-> FALSE, ran_tasks |-> FALSE, notified |-> FALSE]

LastConnectedAfter(new_state, old) ==
    IF new_state.type = "Connected" THEN new_state.connection
    ELSE IF new_state.type = "Disconnected" /\ new_state.connection # 0
            /\ new_state.reconnection = 0 THEN 0
    ELSE old

ConnectedOnceAfter(new_state, old_state, old) ==
    IF new_state.type = "Connected" THEN TRUE
    ELSE IF new_state.connection # old_state.connection THEN FALSE
    ELSE old

NoResult == [raised |-> FALSE, same |-> FALSE, warned |-> FALSE, state |-> NoState]

FnIdle ==
    /\ fn_pc = "off"
    /\ fn_state = NoState
    /\ fn_event = NoEvent
    /\ fn_result = NoResult

\* VPNConnector._determine_initial_state: no connection found, or the initial
\* state of the connection found, here a connection that is up.
InitialStates ==
    {State("Disconnected", StateContext("None", 0, 0)),
     State("Connected", StateContext("None", 1, 0))}

\* VPNConnector.__init__
ConnectorInit(initial_state) ==
    LET u == update_state(initial_state)
        c == initial_state.connection
    IN /\ current_state = u.current_state
       /\ lock = NoThread
       /\ pc = [t \in Threads |-> "idle"]
       /\ ev = [t \in Threads |-> Nothing]
       /\ registered = (IF c # 0 THEN {c} ELSE {}) \ u.unregister
       /\ backend = [x \in Conns |-> IF x = c THEN BackendAfter(u.calls, x, "up") ELSE "new"]
       /\ nextConn = (IF c # 0 THEN 1 ELSE 0)
       /\ calls = u.calls
       /\ persisted = PersistedAfter(u.calls, c)
       /\ last = NoOutcome
       /\ lastConnected = LastConnectedAfter(initial_state, 0)
       /\ connectedOnce = (initial_state.type = "Connected")
       /\ steps = u.steps
       /\ delivered = u.delivered
       /\ cascade = [t \in Threads |-> 0]

Init ==
    /\ killswitch \in [Conns -> KillSwitchValues]
    /\ \A c \in Conns : c > 1 => killswitch[c] = KS_OFF
    /\ \E s \in InitialStates :
          /\ (s.connection = 0 => killswitch[1] = KS_OFF)
          /\ ConnectorInit(s)
    /\ FnIdle
    /\ LibIdle

\* VPNConnector.connect: a new connection is created, the callback is
\* registered on it and the Up event is submitted.
Connect(t, k) ==
    /\ t = MainThread
    /\ pc[t] = "idle"
    /\ nextConn < MaxConns
    /\ LET c == nextConn + 1
       IN /\ nextConn' = c
          /\ killswitch' = [killswitch EXCEPT ![c] = k]
          /\ registered' = registered \cup {c}
          /\ ev' = [ev EXCEPT ![t] = Submitted(Event("Up", c), "user")]
    /\ pc' = [pc EXCEPT ![t] = "waiting"]
    /\ UNCHANGED <<current_state, lock, backend, calls, persisted, last,
                   lastConnected, connectedOnce, steps, delivered, cascade>>
    /\ UNCHANGED fnVars
    /\ UNCHANGED libVars

\* VPNConnector.disconnect: current_connection is read before the lock is taken.
Disconnect(t) ==
    /\ t = MainThread
    /\ pc[t] = "idle"
    /\ ev' = [ev EXCEPT ![t] = Submitted(Event("Down", current_state.connection), "user")]
    /\ pc' = [pc EXCEPT ![t] = "waiting"]
    /\ UNCHANGED <<current_state, lock, registered, killswitch, backend, nextConn,
                   calls, persisted, last, lastConnected, connectedOnce,
                   steps, delivered, cascade>>
    /\ UNCHANGED fnVars
    /\ UNCHANGED libVars

\* The events a backend emits, by what it is doing.
BackendEvents(status) ==
    CASE status = "starting" ->
            {"Connected", "Disconnected", "Timeout", "AuthDenied",
             "TunnelSetupFailed", "UnexpectedError"}
      [] status = "up" -> {"Disconnected", "DeviceDisconnected", "UnexpectedError"}
      [] status = "stopping" -> {"Disconnected"}
      [] OTHER -> {}

BackendStatusAfter(e) ==
    IF e = "Connected" THEN "up"
    ELSE IF e = "Disconnected" THEN "down"
    ELSE "failed"

\* A backend thread calls the callback registered on connection c.
BackendEmit(t, c, e) ==
    /\ t \in BackendThreads
    /\ pc[t] = "idle"
    /\ c \in registered
    /\ e \in BackendEvents(backend[c])
    /\ backend' = [backend EXCEPT ![c] = BackendStatusAfter(e)]
    /\ ev' = [ev EXCEPT ![t] = Submitted(Event(e, c), "backend")]
    /\ pc' = [pc EXCEPT ![t] = "waiting"]
    /\ UNCHANGED <<current_state, lock, registered, killswitch, nextConn,
                   calls, persisted, last, lastConnected, connectedOnce,
                   steps, delivered, cascade>>
    /\ UNCHANGED fnVars
    /\ UNCHANGED libVars

\* A connection object that nothing refers to any more (not the connector's
\* state, not an event in flight, and the callback is unregistered) is gone,
\* and its settings with it.
Unreferenced(c, state, callbacks, events) ==
    /\ c \notin callbacks
    /\ c # state.connection
    /\ c # state.reconnection
    /\ \A t \in Threads : events[t].connection # c

KillSwitchAfter(state, callbacks, events) ==
    [c \in Conns |-> IF Unreferenced(c, state, callbacks, events)
                     THEN KS_OFF ELSE killswitch[c]]

\* `with self._lock:` in _process_connection_event
Acquire(t) ==
    /\ pc[t] = "waiting"
    /\ lock = NoThread
    /\ lock' = t
    /\ pc' = [pc EXCEPT ![t] = "locked"]
    /\ UNCHANGED <<current_state, ev, registered, killswitch, backend, nextConn,
                   calls, persisted, last, lastConnected, connectedOnce,
                   steps, delivered, cascade>>
    /\ UNCHANGED fnVars
    /\ UNCHANGED libVars

\* The body of _process_connection_event under the lock, the release of the
\* lock, and in _on_connection_event the submission of the event the tasks
\* returned, if any.
Process(t) ==
    /\ pc[t] = "locked"
    /\ lock = t
    /\ lock' = NoThread
    /\ LET r == on_event(current_state, Event(ev[t].type, ev[t].connection))
       IN IF r.raised
          THEN /\ last' = [raised |-> TRUE, warned |-> r.warned,
                           ran_tasks |-> FALSE, notified |-> FALSE]
               /\ pc' = [pc EXCEPT ![t] = "idle"]
               /\ ev' = [ev EXCEPT ![t] = Nothing]
               /\ steps' = <<>>
               /\ cascade' = [cascade EXCEPT ![t] = 0]
               /\ UNCHANGED <<current_state, registered, backend, calls, persisted,
                              lastConnected, connectedOnce, delivered>>
          ELSE IF r.same
          THEN /\ current_state' = r.state
               /\ last' = [raised |-> FALSE, warned |-> r.warned,
                           ran_tasks |-> FALSE, notified |-> FALSE]
               /\ pc' = [pc EXCEPT ![t] = "idle"]
               /\ ev' = [ev EXCEPT ![t] = Nothing]
               /\ steps' = <<>>
               /\ cascade' = [cascade EXCEPT ![t] = 0]
               /\ UNCHANGED <<registered, backend, calls, persisted,
                              lastConnected, connectedOnce, delivered>>
          ELSE LET u == update_state(r.state)
               IN /\ current_state' = u.current_state
                  /\ registered' = registered \ u.unregister
                  /\ calls' = u.calls
                  /\ backend' = [c \in Conns |-> BackendAfter(u.calls, c, backend[c])]
                  /\ persisted' = PersistedAfter(u.calls, persisted)
                  /\ lastConnected' = LastConnectedAfter(u.current_state, lastConnected)
                  /\ connectedOnce' = ConnectedOnceAfter(u.current_state, current_state, connectedOnce)
                  /\ last' = [raised |-> FALSE, warned |-> r.warned,
                              ran_tasks |-> Did(u.steps, "run_tasks"),
                              notified |-> Did(u.steps, "notify")]
                  /\ steps' = u.steps
                  /\ delivered' = u.delivered
                  /\ IF u.new_event # NoEvent
                     THEN /\ ev' = [ev EXCEPT ![t] = Submitted(u.new_event, "tasks")]
                          /\ pc' = [pc EXCEPT ![t] = "waiting"]
                          /\ cascade' = [cascade EXCEPT ![t] = @ + 1]
                     ELSE /\ ev' = [ev EXCEPT ![t] = Nothing]
                          /\ pc' = [pc EXCEPT ![t] = "idle"]
                          /\ cascade' = [cascade EXCEPT ![t] = 0]
    /\ killswitch' = KillSwitchAfter(current_state', registered', ev')
    /\ UNCHANGED nextConn
    /\ UNCHANGED fnVars
    /\ UNCHANGED libVars

Next ==
    \/ \E t \in Threads, k \in KillSwitchValues : Connect(t, k)
    \/ \E t \in Threads : Disconnect(t)
    \/ \E t \in Threads, c \in Conns, e \in EVENT_TYPES : BackendEmit(t, c, e)
    \/ \E t \in Threads : Acquire(t)
    \/ \E t \in Threads : Process(t)

Spec == Init /\ [][Next]_vars

-----------------------------------------------------------------------------
\* State.on_event applied to every state and every event, outside the connector.

\* The states a State object can be: no connection only in the Disconnected
\* state the connector starts in, a reconnection only while Disconnecting and
\* in the Disconnected state that follows.
FnStates ==
    {State("Disconnected", StateContext("None", 0, 0))}
    \cup {State(ty, StateContext("None", c, 0)) :
            ty \in StateTypes, c \in Conns}
    \cup {s \in {State(ty, StateContext("None", c, r)) :
                    ty \in {"Disconnecting", "Disconnected"}, c \in Conns, r \in Conns} :
            s.connection # s.reconnection}

\* disconnect() sends Down with no connection when there is none.
FnEvents ==
    {Event(e, c) : e \in EVENT_TYPES, c \in Conns} \cup {Event("Down", 0)}

InitFn ==
    /\ killswitch = [c \in Conns |-> KS_OFF]
    /\ ConnectorInit(State("Disconnected", StateContext("None", 0, 0)))
    /\ fn_pc = "ready"
    /\ fn_state \in FnStates
    /\ fn_event \in FnEvents
    /\ fn_result = NoResult
    /\ LibIdle

ApplyOnEvent ==
    /\ fn_pc = "ready"
    /\ fn_result' = on_event(fn_state, fn_event)
    /\ fn_pc' = "done"
    /\ UNCHANGED <<fn_state, fn_event>>
    /\ UNCHANGED connVars
    /\ UNCHANGED libVars

NextFn == ApplyOnEvent

SpecFn == InitFn /\ [][NextFn]_vars

-----------------------------------------------------------------------------
\* A reconnection, alone: the connector reaches Connected for connection 1
\* (restored at construction, or by a first connect()), connect() is then
\* called once more, and the backend answers stop() with Disconnected and
\* start() with Connected.

InitReconnect == Init

ConnectFirst(t, k) ==
    /\ nextConn = 0
    /\ Connect(t, k)

ConnectAgain(t, k) ==
    /\ nextConn = 1
    /\ current_state.type = "Connected"
    /\ Connect(t, k)

AnswerStop(t, c) ==
    /\ backend[c] = "stopping"
    /\ BackendEmit(t, c, "Disconnected")

AnswerStart(t, c) ==
    /\ backend[c] = "starting"
    /\ BackendEmit(t, c, "Connected")

NextReconnect ==
    \/ \E t \in Threads, k \in KillSwitchValues : ConnectFirst(t, k)
    \/ \E t \in Threads, k \in KillSwitchValues : ConnectAgain(t, k)
    \/ \E t \in Threads, c \in Conns : AnswerStop(t, c)
    \/ \E t \in Threads, c \in Conns : AnswerStart(t, c)
    \/ \E t \in Threads : Acquire(t)
    \/ \E t \in Threads : Process(t)

SpecReconnect == InitReconnect /\ [][NextReconnect]_vars

-----------------------------------------------------------------------------
\* A runaway cascade: the current state is one whose tasks always return an
\* Up event, and connect() is called.

InitCascade ==
    /\ killswitch = [c \in Conns |-> KS_OFF]
    /\ ConnectorInit(State("Looping", StateContext("None", 1, 0)))
    /\ FnIdle
    /\ LibIdle

ProcessCascade(t) ==
    /\ cascade[t] < MaxCascade
    /\ Process(t)

NextCascade ==
    \/ \E t \in Threads, k \in KillSwitchValues : Connect(t, k)
    \/ \E t \in Threads : Acquire(t)
    \/ \E t \in Threads : ProcessCascade(t)

SpecCascade == InitCascade /\ [][NextCascade]_vars

-----------------------------------------------------------------------------
\* A user Down racing a backend Disconnected: connect() is called from
\* Disconnected, and while the state is Connecting the user calls
\* disconnect() and the backend reports Disconnected, in either order.

InitRace ==
    /\ killswitch = [c \in Conns |-> KS_OFF]
    /\ ConnectorInit(State("Disconnected", StateContext("None", 0, 0)))
    /\ FnIdle
    /\ LibIdle

ConnectWhenDisconnected(t, k) ==
    /\ current_state.type = "Disconnected"
    /\ \A u \in Threads : pc[u] = "idle"
    /\ Connect(t, k)

DownWhileConnecting(t) ==
    /\ current_state.type = "Connecting"
    /\ Disconnect(t)

ReportDisconnected(t, c) ==
    /\ backend[c] \in {"starting", "stopping"}
    /\ BackendEmit(t, c, "Disconnected")

NextRace ==
    \/ \E t \in Threads, k \in KillSwitchValues : ConnectWhenDisconnected(t, k)
    \/ \E t \in Threads : DownWhileConnecting(t)
    \/ \E t \in Threads, c \in Conns : ReportDisconnected(t, c)
    \/ \E t \in Threads : Acquire(t)
    \/ \E t \in Threads : Process(t)

SpecRace == InitRace /\ [][NextRace]_vars

-----------------------------------------------------------------------------
\* A clean teardown: the connector reaches Connected (restored at
\* construction, or by connect() answered with Connected), disconnect() is
\* called, there or already while Connecting, and the backend answers stop()
\* with Disconnected.  A thread that
\* waits for the lock gets it once it is free, a thread that holds it runs on,
\* and a backend that was told to stop reports Disconnected.

InitTeardown == Init

DisconnectWhenConnected(t) ==
    /\ current_state.type = "Connected"
    /\ Disconnect(t)

NextTeardown ==
    \/ \E t \in Threads, k \in KillSwitchValues : ConnectWhenDisconnected(t, k)
    \/ \E t \in Threads, c \in Conns : AnswerStart(t, c)
    \/ \E t \in Threads : DisconnectWhenConnected(t)
    \/ \E t \in Threads : DownWhileConnecting(t)
    \/ \E t \in Threads, c \in Conns : AnswerStop(t, c)
    \/ \E t \in Threads : Acquire(t)
    \/ \E t \in Threads : Process(t)

SpecTeardown ==
    /\ InitTeardown
    /\ [][NextTeardown]_vars
    /\ \A t \in Threads : WF_vars(Acquire(t)) /\ WF_vars(Process(t))
    /\ \A t \in Threads, c \in Conns : WF_vars(AnswerStop(t, c))

-----------------------------------------------------------------------------
\* VPNConnector.get_instance, from before its first call.  The application
\* calls it on its own thread, the thread of the user's requests; the
\* backend threads only ever call the callback.

\* The calls of get_instance that are followed.
MaxGetInstance == 3

\* `if cls._instance:`
MutantNeverHasInstance(c) == FALSE

has_instance(c) == c.instance # 0

\* connection.initial_state of the connection found: Connected when the
\* backend still sees its tunnel up, Disconnected when not.
initial_state(c, status) ==
    IF status = "up"
    THEN State("Connected", StateContext("None", c, 0))
    ELSE State("Disconnected", StateContext("None", c, 0))

MutantDetermineAlwaysDisconnected(record, status) ==
    State("Disconnected", StateContext("None", 0, 0))

\* VPNConnector._determine_initial_state; record is the connection that
\* VPNConnection.get_current_connection() finds, 0 when it finds none.
determine_initial_state(record, status) ==
    IF record # 0
    THEN initial_state(record, status[record])
    ELSE State("Disconnected", StateContext("None", 0, 0))

\* No connector yet; connection 1 may be there from an earlier run of the
\* application, its tunnel up or down.
InitInstance ==
    /\ cls = [instance |-> 0, created |-> 0, determined |-> 0, returned |-> <<>>]
    /\ PublisherIdle
    /\ PersistenceIdle
    /\ FactoryIdle
    /\ FnIdle
    /\ persisted \in {0, 1}
    /\ nextConn = persisted
    /\ backend \in [Conns -> {"new", "up", "down"}]
    /\ \A c \in Conns : backend[c] = "new" <=> c # persisted
    /\ killswitch \in [Conns -> KillSwitchValues]
    /\ \A c \in Conns : c # persisted => killswitch[c] = KS_OFF
    /\ current_state = NoState
    /\ lock = NoThread
    /\ pc = [t \in Threads |-> "idle"]
    /\ ev = [t \in Threads |-> Nothing]
    /\ registered = {}
    /\ calls = <<>>
    /\ last = NoOutcome
    /\ lastConnected = 0
    /\ connectedOnce = FALSE
    /\ steps = <<>>
    /\ delivered = NoState
    /\ cascade = [t \in Threads |-> 0]

\* VPNConnector.get_instance, with _determine_initial_state and __init__ when
\* the connector is created.
GetInstance(t) ==
    /\ t = MainThread
    /\ pc[t] = "idle"
    /\ Len(cls.returned) < MaxGetInstance
    /\ IF has_instance(cls)
       THEN /\ cls' = [cls EXCEPT !.returned = Append(@, cls.instance)]
            /\ UNCHANGED connVars
       ELSE LET s == determine_initial_state(persisted, backend)
                u == update_state(s)
                c == s.connection
                id == cls.created + 1
            IN /\ cls' = [instance |-> id,
                          created |-> id,
                          determined |-> cls.determined + 1,
                          returned |-> Append(cls.returned, id)]
               /\ current_state' = u.current_state
               /\ lock' = NoThread
               /\ registered' = (IF c # 0 THEN {c} ELSE {}) \ u.unregister
               /\ backend' = [x \in Conns |-> BackendAfter(u.calls, x, backend[x])]
               /\ calls' = u.calls
               /\ persisted' = PersistedAfter(u.calls, persisted)
               /\ last' = NoOutcome
               /\ lastConnected' = LastConnectedAfter(s, 0)
               /\ connectedOnce' = (s.type = "Connected")
               /\ steps' = u.steps
               /\ delivered' = u.delivered
               /\ UNCHANGED <<pc, ev, killswitch, nextConn, cascade>>
    /\ UNCHANGED <<publisher, store, factory>>
    /\ UNCHANGED fnVars

\* connect() and disconnect() are called on the connector get_instance returned.
ConnectOnInstance(t, k) ==
    /\ cls.returned # <<>>
    /\ ConnectWhenDisconnected(t, k)

DisconnectOnInstance(t) ==
    /\ cls.returned # <<>>
    /\ is_connection_ongoing(current_state)
    /\ Disconnect(t)

NextInstance ==
    \/ \E t \in Threads : GetInstance(t)
    \/ \E t \in Threads, k \in KillSwitchValues : ConnectOnInstance(t, k)
    \/ \E t \in Threads : DisconnectOnInstance(t)
    \/ \E t \in Threads, c \in Conns : AnswerStart(t, c)
    \/ \E t \in Threads, c \in Conns : AnswerStop(t, c)
    \/ \E t \in Threads : Acquire(t)
    \/ \E t \in Threads : Process(t)

SpecInstance == InitInstance /\ [][NextInstance]_vars

-----------------------------------------------------------------------------
\* A Publisher on its own: subscribers are registered and unregistered and
\* notifications are made, one call after the other.  Some subscribers raise
\* in status_update.

InitPublisher ==
    /\ killswitch = [c \in Conns |-> KS_OFF]
    /\ ConnectorInit(State("Disconnected", StateContext("None", 0, 0)))
    /\ FnIdle
    /\ InstanceCreated
    /\ PersistenceIdle
    /\ FactoryIdle
    /\ \E raising \in SUBSET SubscriberIds : publisher = Publisher_init(raising)

\* Publisher.register(who)
Register(who) ==
    /\ publisher.pc = "idle"
    /\ Len(publisher.subscribers) <= MaxSubscribers
    /\ LET r == Publisher_register(publisher.subscribers, who)
       IN publisher' = [publisher EXCEPT !.subscribers = r.subscribers,
                                         !.raised = r.raised,
                                         !.op = [name |-> "register", who |-> who],
                                         !.before = publisher.subscribers,
                                         !.invoked = <<>>,
                                         !.i = 0]
    /\ UNCHANGED <<cls, store, factory>>
    /\ UNCHANGED connVars
    /\ UNCHANGED fnVars

\* Publisher.unregister(who)
Unregister(who) ==
    /\ publisher.pc = "idle"
    /\ LET r == Publisher_unregister(publisher.subscribers, who)
       IN publisher' = [publisher EXCEPT !.subscribers = r.subscribers,
                                         !.raised = r.raised,
                                         !.op = [name |-> "unregister", who |-> who],
                                         !.before = publisher.subscribers,
                                         !.invoked = <<>>,
                                         !.i = 0]
    /\ UNCHANGED <<cls, store, factory>>
    /\ UNCHANGED connVars
    /\ UNCHANGED fnVars

\* Publisher._notify_subscribers is entered: the for loop starts at the
\* head of the list.
NotifyBegin ==
    /\ publisher.pc = "idle"
    /\ publisher' = [publisher EXCEPT !.pc = "notifying",
                                      !.i = 1,
                                      !.invoked = <<>>,
                                      !.raised = "None",
                                      !.op = [name |-> "notify", who |-> 0],
                                      !.before = publisher.subscribers,
                                      !.removed = {}]
    /\ UNCHANGED <<cls, store, factory>>
    /\ UNCHANGED connVars
    /\ UNCHANGED fnVars

\* One turn of the loop: the next subscriber is called, or the loop ends.
NotifyNext ==
    /\ publisher.pc = "notifying"
    /\ LET r == notify_subscribers_step(publisher.subscribers, publisher.i,
                                         publisher.raising)
       IN publisher' = [publisher EXCEPT !.pc = IF r.done THEN "idle" ELSE "notifying",
                                         !.i = r.i,
                                         !.invoked = IF r.invoked # 0
                                                     THEN Append(@, r.invoked) ELSE @,
                                         !.raised = r.raised]
    /\ UNCHANGED <<cls, store, factory>>
    /\ UNCHANGED connVars
    /\ UNCHANGED fnVars

NextPublisher ==
    \/ \E who \in SubscriberIds \cup {0} : Register(who)
    \/ \E who \in SubscriberIds \cup {0} : Unregister(who)
    \/ NotifyBegin
    \/ NotifyNext

SpecPublisher == InitPublisher /\ [][NextPublisher]_vars

-----------------------------------------------------------------------------
\* A ConnectionPersistence on its own: records are saved, loaded and removed,
\* over a file that may hold anything when the application starts.  save()
\* opens the file for writing, which empties it, and the text json.dump
\* produces reaches the file piece by piece until the file is closed; the
\* process may die in between and be started again.

Without(text, i) == SubSeq(text, 1, i - 1) \o SubSeq(text, i + 1, Len(text))

\* What the file may hold at the start: nothing, text that is not JSON, a
\* JSON value that is not an object, the beginning of a record, a record
\* with one member missing, a record followed by more text.
InitialFiles ==
    {NoFile, File(<<>>), File(<<JUNK>>), File(<<VALUE>>)}
    \cup {File(SubSeq(json_dump(q), 1, n)) :
            q \in ValidParameters, n \in 1..(Len(FIELDS) + 1)}
    \cup {File(Without(json_dump(q), n)) :
            q \in ValidParameters, n \in 2..(Len(FIELDS) + 1)}
    \cup {File(json_dump(q) \o <<JUNK>>) : q \in ValidParameters}

InitPersistence ==
    /\ killswitch = [c \in Conns |-> KS_OFF]
    /\ ConnectorInit(State("Disconnected", StateContext("None", 0, 0)))
    /\ FnIdle
    /\ InstanceCreated
    /\ PublisherIdle
    /\ FactoryIdle
    /\ \E f \in InitialFiles : store = ConnectionPersistence_init(f)

\* save(): `open(self._connection_file_path, "w")` creates or empties the file.
SaveOpen(params) ==
    /\ store.pc = "idle"
    /\ store' = [store EXCEPT !.file = File(<<>>),
                              !.pc = "saving",
                              !.pending = json_dump(params),
                              !.saving = params,
                              !.complete = FALSE,
                              !.crashed = FALSE,
                              !.before = ConnectionPersistence_load(store.file),
                              !.loaded = NotLoaded]
    /\ UNCHANGED <<cls, publisher, factory>>
    /\ UNCHANGED connVars
    /\ UNCHANGED fnVars

\* save(): the next piece of the text reaches the file.
SaveWrite ==
    /\ store.pc = "saving"
    /\ store.pending # <<>>
    /\ store' = [store EXCEPT !.file = File(Append(store.file.content, Head(store.pending))),
                              !.pending = Tail(store.pending)]
    /\ UNCHANGED <<cls, publisher, factory>>
    /\ UNCHANGED connVars
    /\ UNCHANGED fnVars

\* save(): the `with` block is left and save() returns.
SaveClose ==
    /\ store.pc = "saving"
    /\ store.pending = <<>>
    /\ store' = [store EXCEPT !.pc = "idle", !.complete = TRUE]
    /\ UNCHANGED <<cls, publisher, factory>>
    /\ UNCHANGED connVars
    /\ UNCHANGED fnVars

\* The process dies inside save() and is started again.
Crash ==
    /\ store.pc = "saving"
    /\ store' = [store EXCEPT !.pc = "idle", !.pending = <<>>, !.crashed = TRUE]
    /\ UNCHANGED <<cls, publisher, factory>>
    /\ UNCHANGED connVars
    /\ UNCHANGED fnVars

\* load()
Load ==
    /\ store.pc = "idle"
    /\ store' = [store EXCEPT !.loaded = ConnectionPersistence_load(store.file)]
    /\ UNCHANGED <<cls, publisher, factory>>
    /\ UNCHANGED connVars
    /\ UNCHANGED fnVars

\* remove()
Remove ==
    /\ store.pc = "idle"
    /\ store' = [store EXCEPT !.file = NoFile,
                              !.saving = NoParameters,
                              !.complete = FALSE,
                              !.crashed = FALSE,
                              !.before = NotLoaded,
                              !.loaded = NotLoaded]
    /\ UNCHANGED <<cls, publisher, factory>>
    /\ UNCHANGED connVars
    /\ UNCHANGED fnVars

NextPersistence ==
    \/ \E params \in ValidParameters : SaveOpen(params)
    \/ SaveWrite
    \/ SaveClose
    \/ Crash
    \/ Load
    \/ Remove

SpecPersistence == InitPersistence /\ [][NextPersistence]_vars

-----------------------------------------------------------------------------
\* get_from_factory on its own: over every list of backends the loader may
\* know, the caller asks for a connection, naming a backend or not.

InitFactory ==
    /\ killswitch = [c \in Conns |-> KS_OFF]
    /\ ConnectorInit(State("Disconnected", StateContext("None", 0, 0)))
    /\ FnIdle
    /\ InstanceCreated
    /\ PublisherIdle
    /\ PersistenceIdle
    /\ \E loader \in Loaders : factory = Factory_init(loader)

GetFromFactory(wanted) ==
    /\ factory.pc = "idle"
    /\ factory' = [factory EXCEPT
                      !.pc = "done",
                      !.backend = wanted,
                      !.result = get_from_factory(get_all(factory.loader), wanted)]
    /\ UNCHANGED <<cls, publisher, store>>
    /\ UNCHANGED connVars
    /\ UNCHANGED fnVars

NextFactory ==
    \E wanted \in 0..(MaxBackends + 1) : GetFromFactory(wanted)

SpecFactory == InitFactory /\ [][NextFactory]_vars

-----------------------------------------------------------------------------
\* A Publisher whose subscribers call register and unregister from within
\* status_update: the call is made while the for loop of _notify_subscribers
\* stands between two subscribers, and the loop goes on over the list as the
\* call left it.  An exception of the call leaves status_update and with it
\* the loop.

InitReentrant ==
    /\ killswitch = [c \in Conns |-> KS_OFF]
    /\ ConnectorInit(State("Disconnected", StateContext("None", 0, 0)))
    /\ FnIdle
    /\ InstanceCreated
    /\ PersistenceIdle
    /\ FactoryIdle
    /\ publisher = Publisher_init({})

\* The subscriber called last is still inside status_update.
InStatusUpdate == publisher.pc = "notifying" /\ publisher.invoked # <<>>

\* register(who) called by the subscriber being notified
RegisterWithin(who) ==
    /\ InStatusUpdate
    /\ LET r == Publisher_register(publisher.subscribers, who)
       IN publisher' = [publisher EXCEPT
                           !.subscribers = r.subscribers,
                           !.raised = r.raised,
                           !.pc = IF r.raised = "None" THEN "notifying" ELSE "idle"]
    /\ UNCHANGED <<cls, store, factory>>
    /\ UNCHANGED connVars
    /\ UNCHANGED fnVars

\* unregister(who) called by the subscriber being notified, for a subscriber
\* that is registered (itself or another)
UnregisterWithin(who) ==
    /\ InStatusUpdate
    /\ who \in Range(publisher.subscribers)
    /\ LET r == Publisher_unregister(publisher.subscribers, who)
       IN publisher' = [publisher EXCEPT
                           !.subscribers = r.subscribers,
                           !.raised = r.raised,
                           !.removed = IF r.raised = "None" THEN @ \cup {who} ELSE @,
                           !.pc = IF r.raised = "None" THEN "notifying" ELSE "idle"]
    /\ UNCHANGED <<cls, store, factory>>
    /\ UNCHANGED connVars
    /\ UNCHANGED fnVars

NextReentrant ==
    \/ \E who \in SubscriberIds : Register(who)
    \/ \E who \in SubscriberIds : Unregister(who)
    \/ NotifyBegin
    \/ NotifyNext
    \/ \E who \in SubscriberIds : RegisterWithin(who)
    \/ \E who \in SubscriberIds : UnregisterWithin(who)

SpecReentrant == InitReentrant /\ [][NextReentrant]_vars

-----------------------------------------------------------------------------
\* Backends that call the registered callback from inside start() or stop(),
\* on the thread that runs the state's tasks.  That thread is inside
\* _update_state, inside `with self._lock` of _process_connection_event, and
\* the callback takes it to `with self._lock` again; threading.Lock is not
\* reentrant.

\* The call of start() or stop() among the calls of the tasks, if any.
StartOrStop(cs) == {i \in DOMAIN cs : cs[i].op \in {"start", "stop"}}

\* Thread t commits the state its event leads to and runs the tasks of that
\* state; from inside start() or stop() the backend of the connection calls
\* the callback with event e, and the thread arrives at the lock with it.
\* The tasks do not return and the subscribers are not notified.
ProcessCallingBack(t, e) ==
    /\ pc[t] = "locked"
    /\ lock = t
    /\ LET r == on_event(current_state, Event(ev[t].type, ev[t].connection))
       IN /\ ~r.raised
          /\ ~r.same
          /\ LET u == update_state(r.state)
                 c == u.current_state.connection
                 n == CHOOSE i \in StartOrStop(u.calls) : TRUE
             IN /\ StartOrStop(u.calls) # {}
                /\ c \in registered \ u.unregister
                /\ e \in BackendEvents(BackendAfter(u.calls, c, backend[c]))
                /\ current_state' = u.current_state
                /\ registered' = registered \ u.unregister
                /\ calls' = SubSeq(u.calls, 1, n)
                /\ backend' = [b \in Conns |->
                                 IF b = c THEN BackendStatusAfter(e)
                                 ELSE BackendAfter(u.calls, b, backend[b])]
                /\ lastConnected' = LastConnectedAfter(u.current_state, lastConnected)
                /\ connectedOnce' = ConnectedOnceAfter(u.current_state, current_state,
                                                       connectedOnce)
                /\ last' = [raised |-> FALSE, warned |-> r.warned,
                            ran_tasks |-> FALSE, notified |-> FALSE]
                /\ steps' = <<"commit">>
                /\ ev' = [ev EXCEPT ![t] = Submitted(Event(e, c), "backend")]
                /\ pc' = [pc EXCEPT ![t] = "waiting"]
    /\ killswitch' = KillSwitchAfter(current_state', registered', ev')
    /\ UNCHANGED <<lock, nextConn, persisted, delivered, cascade>>
    /\ UNCHANGED fnVars
    /\ UNCHANGED libVars

NextCallback ==
    \/ \E t \in Threads, k \in KillSwitchValues : Connect(t, k)
    \/ \E t \in Threads : Disconnect(t)
    \/ \E t \in Threads, c \in Conns, e \in EVENT_TYPES : BackendEmit(t, c, e)
    \/ \E t \in Threads : Acquire(t)
    \/ \E t \in Threads : Process(t)
    \/ \E t \in Threads, e \in EVENT_TYPES : ProcessCallingBack(t, e)

\* A thread that holds the lock goes on: the body of `with self._lock` makes
\* no blocking call of its own.
SpecCallback ==
    /\ Init
    /\ [][NextCallback]_vars
    /\ \A t \in Threads : WF_vars(Process(t))

-----------------------------------------------------------------------------
\* Connections queued behind one that is being stopped: the connector reaches
\* Connected for connection 1, the user calls disconnect() or connect(), and
\* while the state is Disconnecting connect() is called again, more than
\* once; the backend answers stop() with Disconnected and start() with
\* Connected.

InitQueue == Init

\* VPNConnector.connect called while the state is Disconnecting.
ConnectWhileDisconnecting(t, k) ==
    /\ t = MainThread
    /\ pc[t] = "idle"
    /\ current_state.type = "Disconnecting"
    /\ nextConn < MaxConns + 1
    /\ LET c == nextConn + 1
       IN /\ nextConn' = c
          /\ killswitch' = [killswitch EXCEPT ![c] = k]
          /\ registered' = registered \cup {c}
          /\ ev' = [ev EXCEPT ![t] = Submitted(Event("Up", c), "user")]
    /\ pc' = [pc EXCEPT ![t] = "waiting"]
    /\ UNCHANGED <<current_state, lock, backend, calls, persisted, last,
                   lastConnected, connectedOnce, steps, delivered, cascade>>
    /\ UNCHANGED fnVars
    /\ UNCHANGED libVars

NextQueue ==
    \/ \E t \in Threads, k \in KillSwitchValues : ConnectFirst(t, k)
    \/ \E t \in Threads, k \in KillSwitchValues : ConnectAgain(t, k)
    \/ \E t \in Threads : DisconnectWhenConnected(t)
    \/ \E t \in Threads, k \in KillSwitchValues : ConnectWhileDisconnecting(t, k)
    \/ \E t \in Threads, c \in Conns : AnswerStop(t, c)
    \/ \E t \in Threads, c \in Conns : AnswerStart(t, c)
    \/ \E t \in Threads : Acquire(t)
    \/ \E t \in Threads : Process(t)

SpecQueue == InitQueue /\ [][NextQueue]_vars

-----------------------------------------------------------------------------
\* Properties.

EventOf(t) == Event(ev[t].type, ev[t].connection)

\* A thread is about to submit, or is submitting, an event returned by run_tasks.
HasFollowUp(t) == pc[t] # "idle" /\ ev[t].origin = "tasks"

\* No thread is inside a dispatch and no event returned by run_tasks is still
\* to be processed.
Settled == lock = NoThread /\ \A t \in Threads : ~HasFollowUp(t)

\* This step commits a new current state (and so runs its tasks).
Commits == \E t \in Threads :
    /\ pc[t] = "locked"
    /\ pc'[t] # "locked"
    /\ ~assert_no_concurrent_connections(current_state, EventOf(t))
    /\ ~dispatch_on_event(current_state, EventOf(t)).same

\* C1: an event is processed to completion, the events its state tasks return
\* included, before another submitted event is applied: no thread applies its
\* event (holds the lock) while another thread still has an event to submit
\* that run_tasks returned.
C1_EventsProcessedToCompletion ==
    \A t, u \in Threads : (t # u /\ pc[t] = "locked") => ~HasFollowUp(u)

\* C2: in a reconnection from Connected(conn1) to conn2, answered by the
\* backend with Disconnected(conn1) and Connected(conn2), no state's tasks call
\* disable_ipv6_leak_protection or disable_killswitch, the Disconnected state
\* that carries the reconnection makes no call at all, and the connector comes
\* to rest in Connected(conn2).
ReconnectDone ==
    /\ nextConn > 1
    /\ \A t \in Threads : pc[t] = "idle"
    /\ \A c \in registered : backend[c] \notin {"starting", "stopping"}

C2_ReconnectionKeepsProtection ==
    /\ ~Has(calls, "disable_ipv6_leak_protection")
    /\ ~Has(calls, "disable_killswitch")
    /\ (current_state.type = "Disconnected" /\ current_state.reconnection # 0
            => calls = <<>>)
    /\ (ReconnectDone => current_state = State("Connected", StateContext("Connected", 2, 0)))

C2_Witness ==
    /\ ReconnectDone
    /\ current_state.type = "Connected"
    /\ current_state.connection = 2

\* C3: whenever start() has been called, it is the last call of the tasks of
\* the Connecting state of that connection, enable_ipv6_leak_protection was
\* called before it, with the kill switch enabled enable_killswitch was called
\* between the two, and with the kill switch off enable_killswitch was not
\* called.
Before(cs, op1, op2) ==
    \E i, j \in DOMAIN cs : i < j /\ cs[i].op = op1 /\ cs[j].op = op2

C3_StartAfterProtection ==
    \A i \in DOMAIN calls : calls[i].op = "start" =>
        LET c == calls[i].connection
        IN /\ current_state.type = "Connecting"
           /\ current_state.connection = c
           /\ i = Len(calls)
           /\ \A j \in DOMAIN calls : calls[j].connection = c
           /\ Before(calls, "enable_ipv6_leak_protection", "start")
           /\ (killswitch[c] = KS_ON =>
                  /\ Before(calls, "enable_ipv6_leak_protection", "enable_killswitch")
                  /\ Before(calls, "enable_killswitch", "start"))
           /\ (killswitch[c] = KS_OFF => ~Has(calls, "enable_killswitch"))

C3_Witness ==
    /\ Has(calls, "start")
    /\ Has(calls, "enable_killswitch")
    /\ killswitch[current_state.connection] = KS_ON

\* C4: in the Error state the only call made is stop() on the connection, and
\* a step that leaves Error calls disable_ipv6_leak_protection only if it is
\* the Down event taking the connector to Disconnected.
C4_ErrorKeepsProtection ==
    /\ [](current_state.type = "Error"
            => calls = <<Call("stop", current_state.connection, 0)>>)
    /\ [][(current_state.type = "Error"
            /\ Has(calls', "disable_ipv6_leak_protection"))
          => /\ current_state'.type = "Disconnected"
             /\ \E t \in Threads : pc[t] = "locked" /\ ev[t].type = "Down"]_vars

C4_Witness ==
    /\ current_state.type = "Error"
    /\ calls = <<Call("stop", current_state.connection, 0)>>

\* C5: the Disconnected state that follows Disconnecting carries the same
\* reconnection, the event its tasks return is Up for exactly that connection,
\* and start() is only called by a step taken from Disconnected or Error,
\* never from Disconnecting, which is left only for Disconnected.
C5_ReconnectionCarried ==
    [][/\ ((current_state.type = "Disconnecting" /\ current_state' # current_state)
            => (/\ current_state'.type \in {"Disconnecting", "Disconnected"}
                /\ current_state'.connection = current_state.connection))
       /\ ((current_state.type = "Disconnecting" /\ current_state'.type = "Disconnected")
            => (/\ current_state'.reconnection = current_state.reconnection
                /\ (current_state.reconnection # 0 =>
                      \E t \in Threads :
                          /\ pc'[t] = "waiting"
                          /\ ev'[t] = Submitted(Event("Up", current_state.reconnection),
                                                "tasks"))))
       /\ ((Commits /\ Has(calls', "start"))
            => current_state.type \in {"Disconnected", "Error"})]_vars

C5_Witness ==
    /\ current_state.type = "Disconnected"
    /\ current_state.reconnection # 0
    /\ \E t \in Threads :
          /\ pc[t] = "waiting"
          /\ ev[t] = Submitted(Event("Up", current_state.reconnection), "tasks")

\* C6: at most one connection at a time has been started and has neither
\* reported Disconnected nor been stopped.
Alive(c) == backend[c] \in {"starting", "up", "failed"}

C6_AtMostOneOngoing == Cardinality({c \in Conns : Alive(c)}) <= 1

C6_Witness ==
    /\ backend[2] = "starting"
    /\ backend[1] \in {"stopping", "down"}

\* C7, as claimed: once dispatch has come to rest, a record is on disk exactly
\* when the current connection reached Connected and the state is not a
\* Disconnected without reconnection.
C7_RecordIffCurrentConnected ==
    Settled =>
        ((persisted # 0) <=>
            (connectedOnce /\ ~(current_state.type = "Disconnected"
                                /\ current_state.reconnection = 0)))

\* C7, amended: the record on disk is that of the connection that reached
\* Connected most recently since the latest Disconnected without reconnection,
\* current or not, and there is none when no connection did; it is written
\* only by the tasks of Connected and removed only by those of Disconnected.
C7_RecordIffConnectedSinceTerminal ==
    /\ [](persisted = lastConnected)
    /\ [][persisted' # persisted =>
            IF persisted' # 0
            THEN /\ current_state'.type = "Connected"
                 /\ persisted' = current_state'.connection
            ELSE /\ current_state'.type = "Disconnected"
                 /\ current_state'.reconnection = 0]_vars

C7_Witness ==
    /\ Settled
    /\ current_state.type = "Connecting"
    /\ persisted # 0
    /\ persisted # current_state.connection

\* C8: on_event raises ConcurrentConnectionsError, and returns no state, for
\* every event other than Up whose connection is not the state's, and never
\* raises it for an Up event.
C8_ConcurrentConnectionsGuard ==
    fn_pc = "done" =>
        /\ ((fn_event.type # "Up" /\ fn_event.connection # fn_state.connection)
              => (fn_result.raised /\ fn_result.state = NoState))
        /\ (fn_event.type = "Up" => ~fn_result.raised)

C8_Witness ==
    /\ fn_pc = "done"
    /\ fn_result.raised
    /\ fn_event.type = "Connected"
    /\ fn_state.type = "Disconnecting"

\* C9: a dispatch whose event the state answers with itself leaves the
\* current state in place (the same object, its reconnection set by an Up in
\* Disconnecting), runs no tasks, notifies nobody and logs one warning.
C9_NoTransitionNoEffects ==
    [][\A t \in Threads :
         (/\ pc[t] = "locked"
          /\ pc'[t] # "locked"
          /\ ~assert_no_concurrent_connections(current_state, EventOf(t))
          /\ dispatch_on_event(current_state, EventOf(t)).same)
         => /\ current_state'.type = current_state.type
            /\ current_state'.connection = current_state.connection
            /\ current_state' = dispatch_on_event(current_state, EventOf(t)).state
            /\ calls' = calls
            /\ backend' = backend
            /\ persisted' = persisted
            /\ registered' = registered
            /\ ~last'.ran_tasks
            /\ ~last'.notified
            /\ last'.warned
            /\ pc'[t] = "idle"]_vars

C9_Witness ==
    /\ last.warned
    /\ ~last.ran_tasks
    /\ ~last.notified
    /\ current_state.type = "Disconnecting"
    /\ current_state.reconnection # 0

\* C10: in Disconnecting, an error event of the current connection gives the
\* Disconnected state with the event's connection and the queued reconnection.
C10_ErrorInDisconnectingDisconnects ==
    (/\ fn_pc = "done"
     /\ fn_state.type = "Disconnecting"
     /\ IsError(fn_event)
     /\ fn_event.connection = fn_state.connection)
    => /\ ~fn_result.raised
       /\ ~fn_result.same
       /\ fn_result.state =
            State("Disconnected",
                  StateContext(fn_event.type, fn_event.connection, fn_state.reconnection))

\* on_event has been applied to a state of the given types and returned.
Applied(types) == fn_pc = "done" /\ fn_state.type \in types

\* on_event returned a new state, this one.
Yields(state) ==
    /\ ~fn_result.raised
    /\ ~fn_result.same
    /\ fn_result.state = state

\* on_event returned the state it was called on, as it was.
Unchanged ==
    /\ ~fn_result.raised
    /\ fn_result.same
    /\ fn_result.state = fn_state

\* C11: in Connecting and Connected, for an event of the state's connection,
\* Down gives Disconnecting of that connection with no reconnection, an error
\* event gives Error, Disconnected gives Disconnected, and Connected gives
\* Connected from Connecting and the same instance from Connected.
C11_ActiveStateTransitions ==
    (Applied({"Connecting", "Connected"}) /\ fn_event.connection = fn_state.connection)
    => /\ (fn_event.type = "Down" =>
              Yields(State("Disconnecting",
                           StateContext(fn_event.type, fn_state.connection, 0))))
       /\ (IsError(fn_event) =>
              Yields(State("Error", StateContext(fn_event.type, fn_event.connection, 0))))
       /\ (fn_event.type = "Disconnected" =>
              Yields(State("Disconnected",
                           StateContext(fn_event.type, fn_event.connection, 0))))
       /\ (fn_event.type = "Connected" =>
              IF fn_state.type = "Connecting"
              THEN Yields(State("Connected",
                                StateContext(fn_event.type, fn_event.connection, 0)))
              ELSE Unchanged)

C11_Witness ==
    /\ Applied({"Connecting"})
    /\ IsError(fn_event)
    /\ fn_result.state.type = "Error"

\* C12: in Disconnected, Up gives Connecting of the event's connection, and
\* no other event gives another state: the state is returned as it is (or the
\* event, being of another connection, is refused).
C12_DisconnectedTransitions ==
    Applied({"Disconnected"})
    => /\ (fn_event.type = "Up" =>
              Yields(State("Connecting", StateContext(fn_event.type, fn_event.connection, 0))))
       /\ (fn_event.type # "Up" =>
              IF fn_event.connection = fn_state.connection
              THEN Unchanged
              ELSE fn_result.raised /\ fn_result.state = NoState)

C12_Witness ==
    /\ Applied({"Disconnected"})
    /\ fn_event.type = "Down"
    /\ fn_result.same
    /\ fn_state.connection # 0

C14_UpQueuesReconnection ==
    (Applied({"Connecting", "Connected", "Disconnecting"}) /\ fn_event.type = "Up")
    => /\ ~fn_result.raised
       /\ fn_result.state =
            State("Disconnecting",
                  StateContext(fn_event.type, fn_state.connection, fn_event.connection))
       /\ (fn_result.same <=> fn_state.type = "Disconnecting")

C14_Witness ==
    /\ Applied({"Disconnecting"})
    /\ fn_event.type = "Up"
    /\ fn_state.reconnection # 0
    /\ fn_result.state.reconnection # fn_state.reconnection
    /\ fn_result.same

\* C15: with the PERMANENT kill switch setting, the tasks of a Disconnected
\* state without reconnection call disable_ipv6_leak_protection and
\* remove_persistence and do not call disable_killswitch.
C15_PermanentKillSwitchStaysOn ==
    (/\ current_state.type = "Disconnected"
     /\ current_state.connection # 0
     /\ current_state.reconnection = 0
     /\ killswitch[current_state.connection] = KS_PERMANENT)
    => /\ Has(calls, "disable_ipv6_leak_protection")
       /\ Has(calls, "remove_persistence")
       /\ ~Has(calls, "disable_killswitch")

\* C16: with the ON or PERMANENT kill switch setting, the tasks of Connecting
\* call enable_killswitch with an argument before they call start().
C16_KillSwitchBeforeStart ==
    \A j \in DOMAIN calls :
        (calls[j].op = "start"
         /\ killswitch[calls[j].connection] \in {KS_ON, KS_PERMANENT})
        => \E i \in DOMAIN calls :
              /\ i < j
              /\ calls[i].op = "enable_killswitch"
              /\ calls[i].arg # 0

\* The number of cascaded events after which the dispatch is to abort.
CascadeLimit == 99

\* C17: no call of _on_connection_event goes on to more than 99 events
\* returned by run_tasks: the dispatch has aborted by then.
C17_CascadeAborts ==
    \A t \in Threads : cascade[t] <= CascadeLimit

\* Step a comes before step b in the latest _update_state call.
StepBefore(a, b) ==
    \E i, j \in DOMAIN steps : i < j /\ steps[i] = a /\ steps[j] = b

\* C18: when a dispatch has changed the state, the tasks of the new state ran
\* after the state was committed and after the subscribers were notified.
C18_TasksAfterCommitAndNotify ==
    last.ran_tasks =>
        /\ StepBefore("commit", "run_tasks")
        /\ StepBefore("notify", "run_tasks")

\* Thread t ends a dispatch in this step.
Dispatches(t) == pc[t] = "locked" /\ pc'[t] # "locked"

\* The transition table gives state new from state old for some event.
InTable(old, new) ==
    \E e \in EVENT_TYPES, c \in Conns \cup {0} :
        LET r == on_event(old, Event(e, c))
        IN ~r.raised /\ ~r.same /\ r.state = new

RaceSettled ==
    /\ nextConn > 0
    /\ \A t \in Threads : pc[t] = "idle"
    /\ backend[nextConn] = "down"

Cleanup(c) ==
    <<Call("disable_ipv6_leak_protection", c, 0),
      Call("disable_killswitch", c, 0),
      Call("remove_persistence", c, 0)>>

\* C20: in the race no dispatch raises an error; once both events are
\* processed the state is Disconnected of the connection with no reconnection
\* and its cleanup has run; from Connecting the state only goes to
\* Disconnecting or Disconnected and from Disconnecting only to Disconnected;
\* and the cleanup runs for a connection whose callback is registered and
\* unregisters it, so not a second time.
C20_DownRacesDisconnected ==
    /\ [](~last.raised)
    /\ [](RaceSettled =>
            /\ current_state = State("Disconnected", StateContext("None", nextConn, 0))
            /\ calls = Cleanup(nextConn))
    /\ [][/\ (current_state.type = "Connecting" /\ current_state'.type # "Connecting"
                => current_state'.type \in {"Disconnecting", "Disconnected"})
           /\ (current_state.type = "Disconnecting" /\ current_state'.type # "Disconnecting"
                => current_state'.type = "Disconnected")
           /\ (current_state' # current_state
                => (/\ current_state'.reconnection = 0
                    /\ current_state'.connection = nextConn))
           /\ ((Commits /\ Has(calls', "remove_persistence"))
                => (/\ current_state'.connection \in registered
                    /\ current_state'.connection \notin registered'))]_vars

\* The backend's Disconnected was processed first and the user's Down was
\* answered by the Disconnected state with itself.
C20_Witness ==
    /\ RaceSettled
    /\ current_state.type = "Disconnected"
    /\ last.warned
    /\ calls = Cleanup(nextConn)

\* disconnect() has been called in the Connected state and its Down event is
\* not processed yet.
DownRequested ==
    /\ current_state.type = "Connected"
    /\ pc[MainThread] # "idle"
    /\ ev[MainThread].type = "Down"

AtRestDisconnected ==
    /\ current_state.type = "Disconnected"
    /\ current_state.reconnection = 0
    /\ \A t \in Threads : pc[t] = "idle"

\* This step commits a state for the Disconnected event of a backend.
CommitsBackendDisconnected == \E t \in Threads :
    /\ pc[t] = "locked"
    /\ pc'[t] # "locked"
    /\ ev[t].type = "Disconnected"
    /\ ev[t].origin = "backend"

C22_CallbackFollowsState ==
    /\ [](IF is_connection_ongoing(current_state)
          THEN current_state.connection \in registered
          ELSE current_state.connection \notin registered)
    /\ [][(Commits /\ ~is_connection_ongoing(current_state')
                   /\ current_state'.connection # 0)
            => registered' = registered \ {current_state'.connection}]_vars

\* An Error state was committed for a connection that was starting, and the
\* callback is gone from it.
C22_Witness ==
    /\ current_state.type = "Error"
    /\ current_state.connection = 2
    /\ 2 \notin registered
    /\ Has(calls, "stop")

\* This step is a call of get_instance that creates the connector.
Creates == cls.instance = 0 /\ cls'.instance # 0

C24_InitialStateRestored ==
    [][Creates =>
        /\ (persisted # 0 =>
               /\ current_state'.connection = persisted
               /\ current_state'.reconnection = 0
               /\ current_state'.type = (IF backend[persisted] = "up"
                                         THEN "Connected" ELSE "Disconnected")
               /\ (is_connection_ongoing(current_state') => persisted \in registered'))
        /\ (persisted = 0 =>
               current_state' = State("Disconnected", StateContext("None", 0, 0)))
        /\ calls' = run_tasks(current_state').calls
        /\ Did(steps', "run_tasks")
        /\ ~Has(calls', "start")
        /\ \A c \in Conns : backend'[c] # "starting"]_vars

C24_Witness ==
    /\ cls.returned = <<1>>
    /\ current_state = State("Connected", StateContext("None", 1, 0))
    /\ 1 \in registered
    /\ Has(calls, "add_persistence")
    /\ backend[1] = "up"
    /\ nextConn = 1

\* The latest call on the publisher was op and has returned or raised.
Called(name) == publisher.pc = "idle" /\ publisher.op.name = name

Count(list, x) == Cardinality({i \in DOMAIN list : list[i] = x})

\* C25: unregister of a subscriber that is not registered raises nothing and
\* leaves the list of subscribers as it was.
C25_UnregisterUnknownIsSilent ==
    (Called("unregister") /\ publisher.op.who \notin Range(publisher.before))
    => /\ publisher.raised = "None"
       /\ publisher.subscribers = publisher.before

\* C26: a notification calls every registered subscriber once, in the order
\* of registration, whether or not one of them raises.
C26_NotifyReachesEverySubscriber ==
    Called("notify") => publisher.invoked = publisher.subscribers

LoadedSaved == store.loaded = Outcome("None", TRUE, store.saving)

\* C28: once save(p) has returned, load() returns a record equal to p in all
\* six fields, whatever the file held before, the record of an earlier save
\* included: the file holds the text of p and nothing else.
C28_SaveLoadRoundTrip ==
    /\ (store.complete /\ store.loaded.done) => LoadedSaved
    /\ store.complete => store.file = File(json_dump(store.saving))

\* load() returned q after save(q) replaced another record.
C28_Witness ==
    /\ store.complete
    /\ store.loaded.done
    /\ LoadedSaved
    /\ store.before.found
    /\ store.before.params # store.saving
    /\ store.saving.killswitch # 0

\* The file is there and its text is not a JSON object with all the required keys.
Malformed(file) ==
    /\ file.exists
    /\ LET doc == json_load(file.content)
       IN \/ doc.error # "None"
          \/ ~doc.object
          \/ \E key \in REQUIRED : ~HasKey(doc.members, key)

\* C29: load() of a file whose text is not a JSON object with all the
\* required keys returns None and raises nothing, and after the next save(p)
\* load() returns p.
C29_MalformedFileLoadsAsNone ==
    /\ (store.loaded.done /\ Malformed(store.file))
         => (store.loaded.raised = "None" /\ ~store.loaded.found)
    /\ (store.complete /\ store.loaded.done /\ store.before.done)
         => LoadedSaved

\* C30: after the process died inside save(), load() returns what it
\* returned before that save() (the earlier record, or None when there was
\* none), or the record that was being saved.
C30_SaveIsAtomic ==
    (store.crashed /\ store.loaded.done /\ store.before.raised = "None")
    => \/ store.loaded = store.before
       \/ LoadedSaved

\* ---- C31 ----
\* When the caller names no backend, the connection is built by a backend
\* whose validate() holds and whose priority is the highest among the
\* backends whose validate() holds; a backend that does not validate builds
\* nothing, whatever its priority.
Entries == get_all(factory.loader)

ValidBackends == {n \in 1..Len(Entries) : Entries[n].valid}

C32_ExplicitBackend ==
    (factory.pc = "done" /\ factory.backend # 0)
        => IF factory.backend \in 1..Len(Entries)
           THEN factory.result = Built("None", factory.backend)
           ELSE factory.result.raised # "None"

\* ---- C33 ----
\* The step that enters Disconnected with a connection and no reconnection
\* calls disable_ipv6_leak_protection, disable_killswitch and
\* remove_persistence on that connection, calls nothing else, and leaves no
\* event of the tasks to be submitted; a Disconnected state without a
\* connection has made no call and left no event.
NoFollowUp == \A t \in Threads : ~HasFollowUp(t)

C33_DisconnectedTasks ==
    /\ [][(/\ Commits
           /\ current_state'.type = "Disconnected"
           /\ current_state'.connection # 0
           /\ current_state'.reconnection = 0)
          => /\ calls' = Cleanup(current_state'.connection)
             /\ \A t \in Threads :
                   (pc[t] = "locked" /\ pc'[t] # "locked") => pc'[t] = "idle"]_vars
    /\ []((current_state.type = "Disconnected" /\ current_state.connection = 0)
            => (calls = <<>> /\ NoFollowUp))

C33_Witness ==
    /\ current_state.type = "Disconnected"
    /\ current_state.connection # 0
    /\ current_state.reconnection = 0
    /\ calls = Cleanup(current_state.connection)
    /\ last.ran_tasks
    /\ NoFollowUp

\* ---- C34 ----
\* The step that enters Connected calls, with the kill switch enabled,
\* enable_killswitch without an argument and then add_persistence, and with
\* the kill switch not enabled add_persistence only; start() is called by no
\* step that enters Connected.
C34_ConnectedTasks ==
    [][(Commits /\ current_state'.type = "Connected")
        => /\ calls' =
                IF killswitch'[current_state'.connection] = KS_ON
                THEN <<Call("enable_killswitch", current_state'.connection, 0),
                       Call("add_persistence", current_state'.connection, 0)>>
                ELSE <<Call("add_persistence", current_state'.connection, 0)>>
           /\ ~Has(calls', "start")]_vars

C34_Witness ==
    /\ current_state.type = "Connected"
    /\ killswitch[current_state.connection] = KS_ON
    /\ last.ran_tasks
    /\ calls = <<Call("enable_killswitch", current_state.connection, 0),
                 Call("add_persistence", current_state.connection, 0)>>

\* ---- C36 ----
\* Every step whose tasks call remove_persistence removes the record of a
\* connection for which the tasks of Connected wrote one, no removal having
\* been made since: remove_persistence is not called with no record on disk.
C36_RemoveOnlyWhatWasWritten ==
    [][(Commits /\ Has(calls', "remove_persistence"))
        => lastConnected = current_state'.connection]_vars

\* ---- C35 ----
\* A notification during which subscribers called register or unregister
\* ends without an exception and has called every subscriber that was
\* registered when it started and was not unregistered during it exactly
\* once.
C35_ReentrantNotification ==
    (publisher.pc = "idle" /\ publisher.op.name = "notify")
        => /\ publisher.raised = "None"
           /\ \A who \in Range(publisher.before) \ publisher.removed :
                 Count(publisher.invoked, who) = 1

\* ---- C37 ----
\* With backends that emit only events that carry their own connection, and
\* only while the callback is registered on it, no event that is processed
\* raises ConcurrentConnectionsError; the Down of a disconnect() made during
\* a reconnection is not applied to a state of another connection.
C37_NoConcurrentConnectionsError ==
    /\ ~last.raised
    /\ \A t \in Threads :
          (pc[t] = "locked" /\ ev[t].type = "Down" /\ ev[t].origin = "user")
             => ev[t].connection = current_state.connection

\* ---- C38 ----
\* Whenever a thread holds the dispatch lock, the lock is released later on:
\* no thread stays at the lock for ever, also when a backend calls the
\* callback from inside start() or stop() on the thread that runs the tasks.
C38_LockAlwaysReleased == (lock # NoThread) ~> (lock = NoThread)

\* ---- C39 ----
\* An Up event applied while the state is Disconnecting leaves the state
\* Disconnecting for the same connection, with the connection of that Up as
\* its reconnection, whatever was queued before.  The Disconnected state that
\* follows carries that reconnection and its tasks return an Up event for it;
\* applied to that state, the event has start() called on that connection.
\* start() is never called on a connection that was queued and replaced.
UpInDisconnecting(t) ==
    /\ pc[t] = "locked"
    /\ pc'[t] # "locked"
    /\ ev[t].type = "Up"
    /\ current_state.type = "Disconnecting"

Started(cs) == {cs[i].connection : i \in {j \in DOMAIN cs : cs[j].op = "start"}}

\* The callback is registered on c, and neither the state nor an event in
\* flight refers to c: c was queued as reconnection and another connection
\* took its place.
Replaced(c) ==
    /\ c \in registered
    /\ c \notin {current_state.connection, current_state.reconnection}
    /\ \A t \in Threads : ev[t].connection # c

====
